---- MODULE Spec2Model ----
(***************************************************************************)
(* The tomo container codec of src/parsers.rs: the deku-derived readers    *)
(* and writers of Container, Indic, EntryHeader, the hand-written          *)
(* Entries::read / Entries::write, and write_lookup.  Byte strings are     *)
(* sequences of 0..255; a read returns a record [status, err, value, rest].*)
(* status is "Ok", "Err" (a DekuError returned) or "Panic" (a slice index  *)
(* out of range aborts the call).                                          *)
(***************************************************************************)
EXTENDS Integers, Sequences, FiniteSets, TLC

VARIABLES first, second, origin, pc, res, ctnr, updated, out, res2,
          list, prefix, lkout, lkres

vars == <<first, second, origin, pc, res, ctnr, updated, out, res2,
          list, prefix, lkout, lkres>>

codecVars == <<first, second, origin, pc, res, ctnr, updated, out, res2>>
lookupVars == <<list, prefix, lkout, lkres>>

\* ---------------------------------------------------------------- bounds
MaxEntries == 2
MaxIndics == 2
MaxItems == 2

\* ------------------------------------------------------- byte primitives
\* to_le_bytes / deku little-endian write of an unsigned integer of w bytes
RECURSIVE LE(_, _)
LE(n, w) == IF w = 0 THEN <<>> ELSE <<n % 256>> \o LE(n \div 256, w - 1)

\* deku little-endian read of an unsigned integer from the bytes b
RECURSIVE FromLE(_)
FromLE(b) == IF Len(b) = 0 THEN 0 ELSE Head(b) + 256 * FromLE(Tail(b))

Drop(s, n) == SubSeq(s, n + 1, Len(s))
Take(s, n) == SubSeq(s, 1, n)

RECURSIVE Concat(_)
Concat(ss) == IF Len(ss) = 0 THEN <<>> ELSE Head(ss) \o Concat(Tail(ss))

Ok(v, r) == [status |-> "Ok", err |-> "", value |-> v, rest |-> r]
Err(e) == [status |-> "Err", err |-> e, value |-> [none |-> TRUE], rest |-> <<>>]
Panic == [status |-> "Panic", err |-> "slice index out of range",
          value |-> [none |-> TRUE], rest |-> <<>>]

\* ------------------------------------------------------------- constants
MAGIC == <<0, 84, 0, 77, 0, 118, 1>>
INDIC_SIZE == 24
LOOKUP_SIZE == 12

\* ------------------------------------------------------------------ Mode
Mode_default == "Stacked"

Mode_read_lenient(b) ==
  IF Len(b) = 0 THEN Err("Incomplete") ELSE Ok("Stacked", Tail(b))

Mode_read(b) ==
  IF Len(b) = 0 THEN Err("Incomplete")
  ELSE IF Head(b) = 1 THEN Ok("Stacked", Tail(b))
  ELSE Err("Parse: Mode")

Mode_write_zero(m) == <<0>>

Mode_write(m) == IF m = "Stacked" THEN <<1>> ELSE <<>>

\* ------------------------------------------------------------- IndicKind
IndicKindIds == {1, 2, 16, 240, 241, 242}

IndicKind_name(id) ==
  CASE id = 1 -> "File" [] id = 2 -> "Dir" [] id = 16 -> "Attributes"
    [] id = 240 -> "Paths" [] id = 241 -> "Checksums" [] id = 242 -> "Signatures"

IndicKind_id(k) ==
  CASE k = "File" -> 1 [] k = "Dir" -> 2 [] k = "Attributes" -> 16
    [] k = "Paths" -> 240 [] k = "Checksums" -> 241 [] k = "Signatures" -> 242

\* ----------------------------------------------------------------- Indic
Indic_read(b) ==
  IF Len(b) = 0 THEN Err("Incomplete")
  ELSE IF Head(b) \notin IndicKindIds THEN Err("Parse: IndicKind")
  ELSE IF Len(b) < INDIC_SIZE THEN Err("Incomplete")
  ELSE Ok([kind |-> IndicKind_name(b[1]),
           path |-> FromLE(SubSeq(b, 2, 4)),
           attrs |-> FromLE(SubSeq(b, 5, 7)),
           reserved |-> b[8],
           offset |-> FromLE(SubSeq(b, 9, 16)),
           length |-> FromLE(SubSeq(b, 17, 24))],
          Drop(b, INDIC_SIZE))

Indic_write(i) ==
  <<IndicKind_id(i.kind)>> \o LE(i.path, 3) \o LE(i.attrs, 3) \o <<i.reserved>>
    \o LE(i.offset, 8) \o LE(i.length, 8)

\* Vec<Indic> read with count = n
RECURSIVE Index_read(_, _)
Index_read(b, n) ==
  IF n = 0 THEN Ok(<<>>, b)
  ELSE LET r == Indic_read(b) IN
       IF r.status # "Ok" THEN r
       ELSE LET t == Index_read(r.rest, n - 1) IN
            IF t.status # "Ok" THEN t
            ELSE Ok(<<r.value>> \o t.value, t.rest)

RECURSIVE Index_write(_)
Index_write(ix) ==
  IF Len(ix) = 0 THEN <<>> ELSE Indic_write(Head(ix)) \o Index_write(Tail(ix))

\* -------------------------------------------------------------- Encoding
EncodingIds == {0, 1, 254, 255}

Encoding_name(id) ==
  CASE id = 0 -> "Raw" [] id = 1 -> "Zstd" [] id = 254 -> "Custom" [] id = 255 -> "Tomo"

Encoding_id(e) ==
  CASE e = "Raw" -> 0 [] e = "Zstd" -> 1 [] e = "Custom" -> 254 [] e = "Tomo" -> 255

\* ----------------------------------------------------------- EntryHeader
\* bits = 1, bits = 1, bits = 6 are packed Msb0 into the first byte;
\* params_bytes is read only when has_params = 1 (cond), else it is 0 (default)
EntryHeader_read(b) ==
  IF Len(b) = 0 THEN Err("Incomplete")
  ELSE IF Len(b) < 2 THEN Err("Incomplete")
  ELSE IF b[2] \notin EncodingIds THEN Err("Parse: Encoding")
  ELSE LET hp == b[1] \div 128
           pl == IF hp = 1 THEN 2 ELSE 0
       IN IF Len(b) < 2 + pl THEN Err("Incomplete")
          ELSE LET pb == IF hp = 1 THEN FromLE(SubSeq(b, 3, 4)) ELSE 0 IN
               IF Len(b) < 2 + pl + pb THEN Err("Incomplete")
               ELSE Ok([has_params |-> hp,
                        nested |-> (b[1] \div 64) % 2,
                        reserved |-> b[1] % 64,
                        encoding |-> Encoding_name(b[2]),
                        params_bytes |-> pb,
                        params |-> SubSeq(b, 2 + pl + 1, 2 + pl + pb)],
                       Drop(b, 2 + pl + pb))

\* the derived writer writes every field that is not marked skip: cond
\* guards the read only, so params_bytes is written also when has_params = 0
EntryHeader_write(h) ==
  <<h.has_params * 128 + h.nested * 64 + h.reserved>> \o <<Encoding_id(h.encoding)>>
    \o LE(h.params_bytes, 2) \o h.params

\* ----------------------------------------------------------------- Entry
Entry_write(e) == EntryHeader_write(e.header) \o e.data

\* --------------------------------------------------------------- Entries
Entries_default == [entries |-> <<>>, offsets |-> <<>>]

Entries_len(es) == Len(es.entries)

\* BTreeMap::insert: the value of an existing key is replaced
MapInsert(m, k, v) == [x \in (DOMAIN m) \cup {k} |-> IF x = k THEN v ELSE m[x]]

\* Entry { indic: *indic, header, data }: data is what the header read left
\* of the indic's byte range
EntryOf_whole_range(indic, entry, h) ==
  [indic |-> indic, header |-> h.value, data |-> entry]

EntryOf(indic, entry, h) ==
  [indic |-> indic, header |-> h.value, data |-> h.rest]

\* Entries::read, the loop over the index; input is every byte that follows
\* the index, also those after the declared region.  ex = entries.len() is
\* the 0-based position of the entry pushed
RECURSIVE Entries_loop(_, _, _, _, _)
Entries_loop(input, index, i, entries, offsets) ==
  IF i > Len(index) THEN Ok([entries |-> entries, offsets |-> offsets], input)
  ELSE LET indic == index[i]
           start == indic.offset
           end == start + indic.length
       IN IF end > Len(input) THEN Panic
          ELSE LET entry == SubSeq(input, start + 1, end)
                   h == EntryHeader_read(entry)
               IN IF h.status # "Ok" THEN h
                  ELSE Entries_loop(input, index, i + 1,
                         Append(entries, EntryOf(indic, entry, h)),
                         MapInsert(offsets, indic.offset, Len(entries)))

Entries_rest_after_last(input, nbytes, es) ==
  LET ends == {es.entries[k].indic.offset + es.entries[k].indic.length :
                 k \in DOMAIN es.entries}
      far == IF ends = {} THEN 0 ELSE CHOOSE e \in ends : \A f \in ends : f <= e
  IN Ok(es, Drop(input, far))

\* Ok((&input[bits..], Self { entries, offsets }))
Entries_rest(input, nbytes, es) ==
  IF nbytes > Len(input) THEN Panic ELSE Ok(es, Drop(input, nbytes))

Entries_read(input, nbytes, index) ==
  LET r == Entries_loop(input, index, 1, <<>>, <<>>) IN
  IF r.status # "Ok" THEN r ELSE Entries_rest(input, nbytes, r.value)

RECURSIVE Entries_write_from(_, _)
Entries_write_from(es, k) ==
  IF k > Len(es) THEN <<>> ELSE Entry_write(es[k]) \o Entries_write_from(es, k + 1)

Entries_write(es) == Entries_write_from(es.entries, 1)

\* ------------------------------------------------------------- Container
Container_default ==
  [mode |-> Mode_default, index_bytes |-> 0, entries_bytes |-> 0,
   index |-> <<>>, entries |-> Entries_default]

\* the magic is matched byte by byte
RECURSIVE Magic_read(_, _)
Magic_read(b, k) ==
  IF k > Len(MAGIC) THEN Ok(TRUE, b)
  ELSE IF Len(b) = 0 THEN Err("Incomplete")
  ELSE IF Head(b) # MAGIC[k] THEN Err("Parse: magic")
  ELSE Magic_read(Tail(b), k + 1)

U64_read(b) ==
  IF Len(b) < 8 THEN Err("Incomplete") ELSE Ok(FromLE(Take(b, 8)), Drop(b, 8))

\* count = "index_bytes / INDIC_SIZE"
IndexCount(index_bytes) == index_bytes \div INDIC_SIZE

\* Container::from_bytes
Container_read(input) ==
  LET m == Magic_read(input, 1) IN
  IF m.status # "Ok" THEN m ELSE
  LET md == Mode_read(m.rest) IN
  IF md.status # "Ok" THEN md ELSE
  LET ib == U64_read(md.rest) IN
  IF ib.status # "Ok" THEN ib ELSE
  LET eb == U64_read(ib.rest) IN
  IF eb.status # "Ok" THEN eb ELSE
  LET ix == Index_read(eb.rest, IndexCount(ib.value)) IN
  IF ix.status # "Ok" THEN ix ELSE
  LET es == Entries_read(ix.rest, eb.value, ix.value) IN
  IF es.status # "Ok" THEN es ELSE
  Ok([mode |-> md.value, index_bytes |-> ib.value, entries_bytes |-> eb.value,
      index |-> ix.value, entries |-> es.value], es.rest)

\* Container::to_bytes: the fields as they are stored, in declaration order
Container_write(c) ==
  MAGIC \o Mode_write(c.mode) \o LE(c.index_bytes, 8) \o LE(c.entries_bytes, 8)
    \o Index_write(c.index) \o Entries_write(c.entries)

\* Container::update: the two update attributes
Container_update(c) ==
  [c EXCEPT !.index_bytes = Len(c.index) * INDIC_SIZE,
            !.entries_bytes = Entries_len(c.entries)]

\* ------------------------------------------------- input byte strings
\* Containers laid out by hand as the tests lay them out: the header, the
\* indic records, and a region of entry byte ranges placed back to back.
BlobRaw == <<0, 0, 7>>
BlobParams == <<128, 1, 1, 0, 9, 5>>
BlobBadEncoding == <<0, 2, 1>>
BlobSet == {BlobRaw, BlobParams, BlobBadEncoding}

BlobSeqs == UNION {[1..n -> BlobSet] : n \in 0..MaxEntries}

BlobOffset(bs, j) == Len(Concat(SubSeq(bs, 1, j - 1)))

\* an indic names one blob of the region; stretch lengthens its range by
\* one byte, into the next blob or past the end of the region
IndexChoices(bs) ==
  UNION {[1..m -> [blob : 1..Len(bs), stretch : 0..1]] : m \in 0..MaxIndics}

RawIndic(kind, path, attrs, offset, length) ==
  <<kind>> \o LE(path, 3) \o LE(attrs, 3) \o <<0>> \o LE(offset, 8) \o LE(length, 8)

RawIndex(bs, ix) ==
  Concat([i \in 1..Len(ix) |->
            RawIndic(1, i, 0, BlobOffset(bs, ix[i].blob),
                     Len(bs[ix[i].blob]) + ix[i].stretch)])

RawContainer(mode, index_bytes, entries_bytes, index, region) ==
  MAGIC \o <<mode>> \o LE(index_bytes, 8) \o LE(entries_bytes, 8) \o index \o region

PlainBytes(bs, ix) ==
  RawContainer(1, Len(ix) * INDIC_SIZE, Len(Concat(bs)), RawIndex(bs, ix), Concat(bs))

\* one fault each: a reserved mode byte, an index_bytes that is no multiple
\* of 24, a stream cut short by one byte, an unknown kind byte
FaultyBytes(bs, ix) ==
  LET n == Len(ix) * INDIC_SIZE
      r == Concat(bs)
      plain == PlainBytes(bs, ix)
  IN {RawContainer(0, n, Len(r), RawIndex(bs, ix), r),
      RawContainer(2, n, Len(r), RawIndex(bs, ix), r),
      RawContainer(1, n + 5, Len(r), RawIndex(bs, ix), r),
      Take(plain, Len(plain) - 1),
      IF Len(ix) = 0 THEN <<9>> \o Tail(plain)
      ELSE RawContainer(1, n, Len(r), <<3>> \o Tail(RawIndex(bs, ix)), r)}

\* tests::empty, lines 365-369
EmptyContainerBytes == MAGIC \o <<1>> \o LE(0, 8) \o LE(0, 8)

\* tests::single_file_raw, lines 410-507
SingleFileRaw ==
  LET seg == <<1, 104, 101, 108, 108, 111, 0>>
      pathsdata == <<0, 0>> \o LE(1, 4) \o LE(1, 4) \o seg
      attrsdata == <<0, 0>> \o LE(1, 4) \o LE(420, 2)
      filedata == <<0, 0>> \o <<0, 0>>
                    \o <<72, 101, 108, 108, 111, 32, 119, 111, 114, 108, 100, 33>>
      attrsoffset == Len(pathsdata)
      fileoffset == attrsoffset + Len(attrsdata)
      index == RawIndic(240, 0, 0, 0, Len(pathsdata))
                 \o RawIndic(16, 0, 0, attrsoffset, Len(attrsdata))
                 \o RawIndic(1, 1, 1, fileoffset, Len(filedata))
      data == pathsdata \o attrsdata \o filedata
  IN RawContainer(1, 3 * INDIC_SIZE, Len(data), index, data)

\* what may follow a container in one stream (tests::catted)
Trailers ==
  {<<>>, EmptyContainerBytes,
   PlainBytes(<<BlobParams>>, <<[blob |-> 1, stretch |-> 0]>>)}

input == first \o second

NoResult == [status |-> "None", err |-> "", value |-> [none |-> TRUE], rest |-> <<>>]
NoContainer == [none |-> TRUE]

\* ------------------------------------------------------------ the codec
InitCodec ==
  /\ pc = "start"
  /\ res = NoResult /\ res2 = NoResult
  /\ ctnr = NoContainer
  /\ updated = FALSE
  /\ out = <<>>
  /\ \/ /\ origin = "bytes"
        /\ \E bs \in BlobSeqs : \E ix \in IndexChoices(bs) :
             \/ first = PlainBytes(bs, ix) /\ second \in Trailers
             \/ first \in FaultyBytes(bs, ix) /\ second = <<>>
     \/ /\ origin = "bytes"
        /\ first = SingleFileRaw /\ second = <<>>
     \/ /\ origin = "default"
        /\ first = <<>> /\ second = <<>>

IdleLookup == list = <<>> /\ prefix = <<>> /\ lkout = <<>> /\ lkres = NoResult

Init == InitCodec /\ IdleLookup

\* Container::from_bytes((&data, 0))
FromBytes ==
  /\ pc = "start" /\ origin = "bytes"
  /\ res' = Container_read(input)
  /\ ctnr' = IF res'.status = "Ok" THEN res'.value ELSE NoContainer
  /\ pc' = "decoded"
  /\ UNCHANGED <<first, second, origin, updated, out, res2>>
  /\ UNCHANGED lookupVars

\* Container::default()
Default ==
  /\ pc = "start" /\ origin = "default"
  /\ ctnr' = Container_default
  /\ pc' = "built"
  /\ UNCHANGED <<first, second, origin, res, updated, out, res2>>
  /\ UNCHANGED lookupVars

\* value.update()
Update ==
  /\ pc \in {"decoded", "built"} /\ ctnr # NoContainer
  /\ ctnr' = Container_update(ctnr)
  /\ updated' = TRUE
  /\ pc' = "updated"
  /\ UNCHANGED <<first, second, origin, res, out, res2>>
  /\ UNCHANGED lookupVars

\* value.to_bytes()
ToBytes ==
  /\ pc \in {"decoded", "built", "updated"} /\ ctnr # NoContainer
  /\ out' = Container_write(ctnr)
  /\ pc' = "encoded"
  /\ UNCHANGED <<first, second, origin, res, ctnr, updated, res2>>
  /\ UNCHANGED lookupVars

\* Container::from_bytes on what to_bytes returned
Reread ==
  /\ pc = "encoded"
  /\ res2' = Container_read(out)
  /\ pc' = "reread"
  /\ UNCHANGED <<first, second, origin, res, ctnr, updated, out>>
  /\ UNCHANGED lookupVars

\* Container::from_bytes((&rest, 0)) on the bytes the first decode left
WalkNext ==
  /\ pc = "decoded" /\ res.status = "Ok" /\ Len(res.rest) > 0
  /\ res2' = Container_read(res.rest)
  /\ pc' = "walked"
  /\ UNCHANGED <<first, second, origin, res, ctnr, updated, out>>
  /\ UNCHANGED lookupVars

Next ==
  \/ FromBytes
  \/ Default
  \/ Update
  \/ ToBytes
  \/ Reread
  \/ WalkNext

Spec == Init /\ [][Next]_vars

\* ------------------------------------------------ PathSeg, Path, Attributes
\* a Segment keeps its terminating 0 in the Vec (until = "|v| *v == 0")
PathSeg_write(g) == IF g.tag = "Root" THEN <<16>> ELSE <<1>> \o g.bytes

RECURSIVE UntilZero(_, _)
UntilZero(b, acc) ==
  IF Len(b) = 0 THEN Err("Incomplete")
  ELSE IF Head(b) = 0 THEN Ok(Append(acc, 0), Tail(b))
  ELSE UntilZero(Tail(b), Append(acc, Head(b)))

PathSeg_read(b) ==
  IF Len(b) = 0 THEN Err("Incomplete")
  ELSE IF Head(b) = 16 THEN Ok([tag |-> "Root", bytes |-> <<>>], Tail(b))
  ELSE IF Head(b) = 1 THEN
    LET u == UntilZero(Tail(b), <<>>) IN
    IF u.status # "Ok" THEN u ELSE Ok([tag |-> "Segment", bytes |-> u.value], u.rest)
  ELSE Err("Parse: PathSeg")

\* Vec<PathSeg> read with count = n
RECURSIVE PathSegs_read(_, _)
PathSegs_read(b, n) ==
  IF n = 0 THEN Ok(<<>>, b)
  ELSE LET r == PathSeg_read(b) IN
       IF r.status # "Ok" THEN r
       ELSE LET t == PathSegs_read(r.rest, n - 1) IN
            IF t.status # "Ok" THEN t ELSE Ok(<<r.value>> \o t.value, t.rest)

U32_read(b) ==
  IF Len(b) < 4 THEN Err("Incomplete") ELSE Ok(FromLE(Take(b, 4)), Drop(b, 4))

Path_write(p) ==
  LE(p.segcount, 4) \o Concat([k \in 1..Len(p.segments) |-> PathSeg_write(p.segments[k])])

Path_read(b) ==
  LET c == U32_read(b) IN
  IF c.status # "Ok" THEN c ELSE
  LET g == PathSegs_read(c.rest, c.value) IN
  IF g.status # "Ok" THEN g
  ELSE Ok([segcount |-> c.value, segments |-> g.value], g.rest)

Attributes_write(a) == LE(a.mode, 2)

Attributes_read(b) ==
  IF Len(b) < 2 THEN Err("Incomplete")
  ELSE Ok([mode |-> FromLE(Take(b, 2))], Drop(b, 2))

\* T::write and T::read of the list's item type
Item_write(kind, item) ==
  IF kind = "paths" THEN Path_write(item) ELSE Attributes_write(item)

Item_read(kind, b) ==
  IF kind = "paths" THEN Path_read(b) ELSE Attributes_read(b)

\* Vec<T> read with count = n
RECURSIVE Items_read(_, _, _)
Items_read(kind, b, n) ==
  IF n = 0 THEN Ok(<<>>, b)
  ELSE LET r == Item_read(kind, b) IN
       IF r.status # "Ok" THEN r
       ELSE LET t == Items_read(kind, r.rest, n - 1) IN
            IF t.status # "Ok" THEN t ELSE Ok(<<r.value>> \o t.value, t.rest)

\* ---------------------------------------------------------- write_lookup
\* output is a BitVec: output.len() counts bits
BitLen(output) == 8 * Len(output)

\* the loop of write_lookup: each item is appended to output and one Lookup
\* record, index (u32) and offset (u64), is written into the table
RECURSIVE write_lookup_items(_, _, _, _, _)
write_lookup_items(kind, items, k, output, lookup) ==
  IF k > Len(items) THEN [output |-> output, lookup |-> lookup]
  ELSE LET offset == BitLen(output) IN
       write_lookup_items(kind, items, k + 1, output \o Item_write(kind, items[k]),
                          lookup \o LE(k, 4) \o LE(offset, 8))

\* the zeroed table is written after the count, then swapped for the real one
write_lookup(kind, items, output) ==
  LET path_count == Len(items)
      counted == output \o LE(path_count, 4)
      lookup_length == path_count * LOOKUP_SIZE
      zeroed == counted \o [i \in 1..lookup_length |-> 0]
      w == write_lookup_items(kind, items, 1, zeroed, <<>>)
  IN Take(w.output, Len(counted)) \o w.lookup
       \o Drop(w.output, Len(counted) + lookup_length)

PathsEntry_write(paths, output) == write_lookup("paths", paths, output)
AttributesEntry_write(attrs, output) == write_lookup("attributes", attrs, output)

\* PathsEntry / AttributesEntry read: the count, the table skipped, the items
LookupEntry_read(kind, b) ==
  LET c == U32_read(b) IN
  IF c.status # "Ok" THEN c ELSE
  IF Len(c.rest) < c.value * LOOKUP_SIZE THEN Err("Incomplete") ELSE
  LET v == Items_read(kind, Drop(c.rest, c.value * LOOKUP_SIZE), c.value) IN
  IF v.status # "Ok" THEN v ELSE Ok([count |-> c.value, items |-> v.value], v.rest)

PathsEntry_read(b) == LookupEntry_read("paths", b)
AttributesEntry_read(b) == LookupEntry_read("attributes", b)

\* ------------------------------------------------- the lookup-table codec
SegHello == [tag |-> "Segment", bytes |-> <<104, 105, 0>>]
SegRoot == [tag |-> "Root", bytes |-> <<>>]
PathSet ==
  {[segcount |-> 1, segments |-> <<SegHello>>],
   [segcount |-> 2, segments |-> <<SegRoot, SegHello>>],
   [segcount |-> 0, segments |-> <<>>]}
AttributesSet == {[mode |-> 420], [mode |-> 0], [mode |-> 65535]}

ListsOf(S) == UNION {[1..n -> S] : n \in 0..MaxItems}

\* bytes the output buffer may hold before the payload is written
Prefixes == {<<>>, <<0, 0>>}

IdleCodec ==
  /\ first = <<>> /\ second = <<>> /\ res = NoResult /\ res2 = NoResult
  /\ ctnr = NoContainer /\ updated = FALSE /\ out = <<>>

InitLookup ==
  /\ IdleCodec
  /\ pc = "lookup" /\ origin \in {"paths", "attributes"}
  /\ list \in (IF origin = "paths" THEN ListsOf(PathSet) ELSE ListsOf(AttributesSet))
  /\ prefix \in Prefixes
  /\ lkout = <<>> /\ lkres = NoResult

payload == Drop(lkout, Len(prefix))

\* PathsEntry::write
WritePaths ==
  /\ pc = "lookup" /\ origin = "paths"
  /\ lkout' = PathsEntry_write(list, prefix)
  /\ pc' = "written"
  /\ UNCHANGED <<list, prefix, lkres, origin>>
  /\ UNCHANGED <<first, second, res, ctnr, updated, out, res2>>

\* AttributesEntry::write
WriteAttributes ==
  /\ pc = "lookup" /\ origin = "attributes"
  /\ lkout' = AttributesEntry_write(list, prefix)
  /\ pc' = "written"
  /\ UNCHANGED <<list, prefix, lkres, origin>>
  /\ UNCHANGED <<first, second, res, ctnr, updated, out, res2>>

\* PathsEntry read of the payload, every item in order
ReadPaths ==
  /\ pc = "written" /\ origin = "paths"
  /\ lkres' = PathsEntry_read(payload)
  /\ pc' = "read"
  /\ UNCHANGED <<list, prefix, lkout, origin>>
  /\ UNCHANGED <<first, second, res, ctnr, updated, out, res2>>

\* AttributesEntry read of the payload, every item in order
ReadAttributes ==
  /\ pc = "written" /\ origin = "attributes"
  /\ lkres' = AttributesEntry_read(payload)
  /\ pc' = "read"
  /\ UNCHANGED <<list, prefix, lkout, origin>>
  /\ UNCHANGED <<first, second, res, ctnr, updated, out, res2>>

LookupNext == WritePaths \/ WriteAttributes \/ ReadPaths \/ ReadAttributes

LookupSpec == InitLookup /\ [][LookupNext]_vars

\* ------------------------------------------------ the layout, on raw bytes
HEADER_SIZE == Len(MAGIC) + 1 + 8 + 8

HasHeader(b) == Len(b) >= HEADER_SIZE /\ Take(b, Len(MAGIC)) = MAGIC
HdrMode(b) == b[Len(MAGIC) + 1]
HdrIndexBytes(b) == FromLE(SubSeq(b, 9, 16))
HdrEntriesBytes(b) == FromLE(SubSeq(b, 17, 24))

\* the k-th 24-byte record of the index, k from 1
RecordAt(b, k) ==
  SubSeq(b, HEADER_SIZE + (k - 1) * INDIC_SIZE + 1, HEADER_SIZE + k * INDIC_SIZE)
RecordOffset(r) == FromLE(SubSeq(r, 9, 16))
RecordLength(r) == FromLE(SubSeq(r, 17, 24))

\* header, then index_bytes of complete records of a known kind
HasIndex(b) ==
  /\ HasHeader(b)
  /\ HdrMode(b) = 1
  /\ Len(b) >= HEADER_SIZE + HdrIndexBytes(b)
  /\ \A k \in 1..(HdrIndexBytes(b) \div INDIC_SIZE) : RecordAt(b, k)[1] \in IndicKindIds

\* the bytes of a range start with a complete entry header of a known encoding
HeaderShapeOk(r) ==
  /\ Len(r) >= 2
  /\ r[2] \in EncodingIds
  /\ r[1] >= 128 => Len(r) >= 4 /\ Len(r) >= 4 + FromLE(SubSeq(r, 3, 4))

\* a well-formed container: valid magic, mode Stacked, index_bytes a multiple
\* of 24, exactly the declared bytes, every indic range inside the entries
\* region and holding an entry header
WellFormed(b) ==
  /\ HasIndex(b)
  /\ HdrIndexBytes(b) % INDIC_SIZE = 0
  /\ Len(b) = HEADER_SIZE + HdrIndexBytes(b) + HdrEntriesBytes(b)
  /\ \A k \in 1..(HdrIndexBytes(b) \div INDIC_SIZE) :
       LET r == RecordAt(b, k)
           region == Drop(b, HEADER_SIZE + HdrIndexBytes(b))
       IN /\ RecordOffset(r) + RecordLength(r) <= HdrEntriesBytes(b)
          /\ HeaderShapeOk(SubSeq(region, RecordOffset(r) + 1,
                                  RecordOffset(r) + RecordLength(r)))

Decoded == origin = "bytes" /\ pc # "start"

\* bytes an EntryHeader read takes from its range
HeaderSize(h) == 2 + (IF h.has_params = 1 THEN 2 ELSE 0) + Len(h.params)

\* ------------------------------------------------------------------ C1
Referenced(b) ==
  LET n == HdrIndexBytes(b) \div INDIC_SIZE IN
  \A x \in 1..HdrEntriesBytes(b) :
    \E k \in 1..n : /\ RecordOffset(RecordAt(b, k)) < x
                    /\ x <= RecordOffset(RecordAt(b, k)) + RecordLength(RecordAt(b, k))

\* C1: for every well-formed container, encoding the decoded Container with
\* to_bytes gives back exactly the bytes the decode consumed.  Stated for the
\* containers whose every region byte lies in some indic's range.
C1_RoundTrip ==
  (Decoded /\ WellFormed(first) /\ Referenced(first) /\ pc = "encoded" /\ ~updated)
    => (res.status = "Ok" /\ out \o res.rest = input)

\* ------------------------------------------------------------------ C2
IsEmptyStacked(r) ==
  /\ r.status = "Ok"
  /\ r.value.mode = "Stacked"
  /\ r.value.index = <<>>
  /\ r.value.entries.entries = <<>>
  /\ r.rest = <<>>

\* C2: the default Container encodes to the 24 canonical bytes (magic, mode
\* 0x01, index_bytes 0, entries_bytes 0); those bytes decode to mode Stacked,
\* an empty index, no entries and no leftover bytes, and the decoded value
\* encodes to the same bytes again.
C2_CanonicalEmpty ==
  /\ (origin = "default" /\ pc \in {"encoded", "reread"} /\ ~updated)
       => (out = EmptyContainerBytes /\ Len(out) = 24)
  /\ (origin = "default" /\ pc = "reread" /\ ~updated) => IsEmptyStacked(res2)
  /\ (Decoded /\ input = EmptyContainerBytes) => IsEmptyStacked(res)
  /\ (Decoded /\ input = EmptyContainerBytes /\ pc = "encoded" /\ ~updated)
       => out = input

C2_Witness ==
  origin = "default" /\ pc = "reread" /\ ~updated /\ res2.status = "Ok"

\* ------------------------------------------------------------------ C3
\* C3: with two well-formed containers back to back in one stream, the first
\* decode returns the first container, as decoded alone, and leaves exactly
\* the second one's bytes; decoding those returns the second container, as
\* decoded alone, with nothing left over.
C3_Concatenation ==
  (Decoded /\ WellFormed(first) /\ WellFormed(second)) =>
    /\ res.status = "Ok"
    /\ Container_read(first).status = "Ok"
    /\ res.value = Container_read(first).value
    /\ Container_read(first).rest = <<>>
    /\ res.rest = second
    /\ pc = "walked" =>
         /\ res2.status = "Ok"
         /\ res2.value = Container_read(second).value
         /\ res2.rest = <<>>

C3_Witness ==
  /\ Decoded /\ WellFormed(first) /\ WellFormed(second)
  /\ pc = "walked" /\ res2.status = "Ok"
  /\ Len(res.value.index) = 2 /\ Len(res2.value.index) = 1

\* ------------------------------------------------------------------ C4
HasOutOfRange(b) ==
  /\ HasIndex(b)
  /\ HdrIndexBytes(b) % INDIC_SIZE = 0
  /\ \E k \in 1..(HdrIndexBytes(b) \div INDIC_SIZE) :
       RecordOffset(RecordAt(b, k)) + RecordLength(RecordAt(b, k)) > HdrEntriesBytes(b)

\* C4: an indic whose range is not inside the declared entries region makes
\* the decode fail with an error: no Container comes back, nothing panics,
\* and no byte after the region is read.
C4_OffsetBounds ==
  (Decoded /\ HasOutOfRange(input)) => (res.status = "Err" /\ ctnr = NoContainer)

\* ------------------------------------------------------------------ C5
PositionsOf(c, o) == {p \in DOMAIN c.index : c.index[p].offset = o}

\* C5: indics that share an offset (and a length) are decoded once: one
\* Entry exists for the offset, the offset map names the first position
\* decoded for it, and the payloads are equal.
C5_Dedup ==
  (Decoded /\ res.status = "Ok") =>
    \A i, j \in DOMAIN res.value.index :
      LET c == res.value
          o == c.index[i].offset
      IN (i < j /\ c.index[j].offset = o /\ c.index[j].length = c.index[i].length) =>
           /\ Cardinality({p \in DOMAIN c.entries.entries :
                             c.entries.entries[p].indic.offset = o}) = 1
           /\ \A p \in PositionsOf(c, o) : c.entries.offsets[o] + 1 <= p
           /\ c.entries.entries[i].data = c.entries.entries[j].data

\* ------------------------------------------------------------------ C6
\* C6: after update, the encoded header holds index_bytes = 24 * (number of
\* index records) and entries_bytes = the number of bytes of the encoded
\* entries region, so decoding the output leaves nothing over.
C6_HeaderLengths ==
  /\ (pc \in {"encoded", "reread"} /\ updated) =>
       /\ HdrIndexBytes(out) = Len(ctnr.index) * INDIC_SIZE
       /\ HdrEntriesBytes(out) = Len(Entries_write(ctnr.entries))
  /\ (pc = "reread" /\ updated) => (res2.status = "Ok" /\ res2.rest = <<>>)

\* ------------------------------------------------------------------ C8
\* C8: an index_bytes that is no multiple of 24 makes the decode fail with
\* an error; it never succeeds with floor(index_bytes / 24) records.
C8_UnalignedIndex ==
  (Decoded /\ HasHeader(input) /\ HdrMode(input) = 1
     /\ HdrIndexBytes(input) % INDIC_SIZE # 0)
    => (res.status = "Err" /\ ctnr = NoContainer)

\* ------------------------------------------------------------------ C9
\* C9: with a valid magic and a mode byte other than 0x01 the decode fails
\* with the error of the Mode field and returns no Container; it never falls
\* back to Stacked.
C9_UnknownMode ==
  (Decoded /\ Len(input) > Len(MAGIC) /\ Take(input, Len(MAGIC)) = MAGIC
     /\ HdrMode(input) # 1)
    => (res.status = "Err" /\ res.err = "Parse: Mode"
        /\ res.value = NoContainer /\ ctnr = NoContainer)

C9_Witness ==
  /\ Decoded /\ HasHeader(input) /\ HdrMode(input) = 2
  /\ Len(input) > HEADER_SIZE

\* ------------------------------------------------------------------ C10
\* C10: after a successful decode the entries are one per indic, in index
\* order: entry i carries index[i], the header read from the start of
\* index[i]'s byte range, and as data the rest of that range; the container
\* of tests::single_file_raw decodes to 3 records, 3 entries, nothing left.
C10_OnePerIndic ==
  /\ (Decoded /\ res.status = "Ok") =>
       LET c == res.value
           n == Len(c.index)
           after == Drop(input, HEADER_SIZE + n * INDIC_SIZE)
       IN /\ Len(c.entries.entries) = n
          /\ \A i \in 1..n :
               LET e == c.entries.entries[i]
                   range == SubSeq(after, c.index[i].offset + 1,
                                   c.index[i].offset + c.index[i].length)
               IN /\ e.indic = c.index[i]
                  /\ c.index[i] = Indic_read(RecordAt(input, i)).value
                  /\ EntryHeader_read(range).status = "Ok"
                  /\ e.header = EntryHeader_read(range).value
                  /\ e.data = Drop(range, HeaderSize(e.header))
                  /\ HeaderSize(e.header) + Len(e.data) = c.index[i].length
  /\ (Decoded /\ input = SingleFileRaw) =>
       /\ res.status = "Ok"
       /\ Len(res.value.index) = 3
       /\ Entries_len(res.value.entries) = 3
       /\ res.rest = <<>>

C10_Witness ==
  /\ Decoded /\ input = SingleFileRaw /\ res.status = "Ok"
  /\ res.value.entries.entries[3].data
       = <<0, 0, 72, 101, 108, 108, 111, 32, 119, 111, 114, 108, 100, 33>>

\* ------------------------------------------------------------------ C7
TableRecord(p, k) == SubSeq(p, 4 + (k - 1) * LOOKUP_SIZE + 1, 4 + k * LOOKUP_SIZE)

\* C7: the payload write_lookup writes is count + N records of 12 bytes + N
\* items; record k holds index = k and the byte offset at which item k
\* starts, so that the item decoded at that offset of the payload is the
\* k-th item of the sequential decode, whatever the output buffer held before.
C7_LookupPartialAccess ==
  (pc = "read") =>
    /\ lkres.status = "Ok"
    /\ lkres.value.items = list
    /\ \A k \in 1..Len(list) :
         LET r == TableRecord(payload, k)
             at == Item_read(origin, Drop(payload, FromLE(SubSeq(r, 5, 12))))
         IN /\ FromLE(SubSeq(r, 1, 4)) = k
            /\ at.status = "Ok"
            /\ at.value = lkres.value.items[k]
====
